---- MODULE Spec2Model ----
(***************************************************************************)
(* Token bucket rate limiter (src/limiter.py): one RateLimiter engine, the *)
(* policy document (config file) and the state document (state file) it    *)
(* loads at construction and rewrites on set_limit, on an allowed check    *)
(* and on reset, and the wall clock read by time.time().                   *)
(*                                                                         *)
(* Token counts are kept in units of 1/Unit token, so that a refill rate   *)
(* below one token per second and a bucket holding a fraction of a token   *)
(* are representable; capacities are whole tokens; refill rates are in     *)
(* 1/Unit token per clock tick.  Identifiers are sequences of characters.  *)
(***************************************************************************)
EXTENDS Integers, Sequences, FiniteSets, TLC

\* ---- bounds of the model ----
Unit == 2
MaxCap == 3
MaxTime == 1
\* calls made on the engine in one run (constructions included)
MaxOps == 5
\* the clock of the runs that watch one pair
MaxWait == 3
\* the capacity of the tests' tool1
LongCap == 5
\* the call counter saturates one above the largest capacity
MaxCalls == MaxCap + 1

Tools == {<<"a">>, <<"b">>}
Users == {<<"x">>, <<"y">>}
\* capacities: the smallest one and a larger one
Capacities == {1, MaxCap}
\* refill rates: none, 1/Unit token per tick, one token per tick
Rates == {0, 1, Unit}
\* the (tool, user) pairs that callers check
Callers == {<<<<"a">>, <<"x">>>>, <<<<"a">>, <<"y">>>>, <<<<"b">>, <<"x">>>>}
NoId == <<>>
\* identifiers as the command line takes them: a tool without ':', a user
\* with and without ':', down to the empty string
KeyTools == {<<"a">>, <<"a", "a">>}
KeyUsers == {<<>>, <<"a">>, <<":">>, <<"a", ":">>, <<":", "a">>, <<":", ":">>,
             <<"a", ":", "a">>}

VARIABLES
    config,      \* RateLimiter.config: tool -> [capacity, refill_rate]
    state,       \* RateLimiter.state: bucket key -> [tokens, last_refill]
    configFile,  \* the policy document on disk
    stateFile,   \* the state document on disk
    now,         \* the wall clock, time.time()
    last,        \* the most recent call on the engine and its outcome
    hist,        \* per key: checks made under one unchanged rate-0 policy
    stale,       \* keys whose tool's capacity was lowered since their last check
    restored,    \* per key: not checked since the latest reset (0 no, 1 yes, 2 yes and had < 1 token)
    ops,         \* number of calls made so far
    admitted,    \* Allowed results for the watched pair since its bucket was created
    born,        \* the clock when the watched pair's bucket was created (-1: never)
    checked,     \* (tool, user) -> Allowed results of its checks, for the pairs checked
    peer         \* a second engine on the same files: its config and state

vars == <<config, state, configFile, stateFile, now, last, hist, stale, restored, ops,
          admitted, born, checked, peer>>

\* the history kept only by the runs that watch one pair
watch == <<admitted, born, checked, peer>>

Min(a, b) == IF a <= b THEN a ELSE b

EmptyMap == [k \in {} |-> 0]

Put(m, k, v) == [x \in DOMAIN m \cup {k} |-> IF x = k THEN v ELSE m[x]]

\* ---- the two documents ----
\* no second engine has been constructed
NoPeer == [config |-> EmptyMap, state |-> EmptyMap]

NoFile == [exists |-> FALSE, doc |-> {}]

\* json.dump(self.state): one member per bucket key
DumpState(st) ==
    [exists |-> TRUE,
     doc |-> {<<k, st[k].tokens, st[k].last_refill>> : k \in DOMAIN st}]

\* a load that reads token counts as whole numbers
LoadStateWholeTokens(file) ==
    IF ~file.exists THEN EmptyMap
    ELSE [k \in {e[1] : e \in file.doc} |->
            LET e == CHOOSE e \in file.doc : e[1] = k
            IN  [tokens |-> (e[2] \div Unit) * Unit, last_refill |-> e[3]]]

\* _load_state: {} when the file does not exist, else json.load
LoadState(file) ==
    IF ~file.exists THEN EmptyMap
    ELSE [k \in {e[1] : e \in file.doc} |->
            LET e == CHOOSE e \in file.doc : e[1] = k
            IN  [tokens |-> e[2], last_refill |-> e[3]]]

\* json.dump(self.config): one member per tool
DumpConfig(cfg) ==
    [exists |-> TRUE,
     doc |-> {<<t, cfg[t].capacity, cfg[t].refill_rate>> : t \in DOMAIN cfg}]

\* _load_config: {} when the file does not exist, else json.load
LoadConfig(file) ==
    IF ~file.exists THEN EmptyMap
    ELSE [t \in {e[1] : e \in file.doc} |->
            LET e == CHOOSE e \in file.doc : e[1] = t
            IN  [capacity |-> e[2], refill_rate |-> e[3]]]

\* ---- the bucket engine ----
\* a key that leaves the user out
GetBucketKeyToolOnly(tool, user) == tool \o <<":">> \o <<"x">>

GetBucketKey(tool, user) == tool \o <<":">> \o user

Keys == {GetBucketKey(c[1], c[2]) : c \in Callers}

\* the keys of the buckets of one tool
KeysOf(tool) == {GetBucketKey(c[1], c[2]) : c \in {d \in Callers : d[1] = tool}}

\* a split at the last ':'
LastColon(key) ==
    CHOOSE i \in 1..Len(key) : key[i] = ":" /\ \A j \in (i + 1)..Len(key) : key[j] # ":"

\* status: bucket_key.split(":", 1), the split at the first ':'
FirstColon(key) ==
    CHOOSE i \in 1..Len(key) : key[i] = ":" /\ \A j \in 1..(i - 1) : key[j] # ":"

KeyTool(key) == SubSeq(key, 1, FirstColon(key) - 1)

KeyUser(key) == SubSeq(key, FirstColon(key) + 1, Len(key))

\* a bucket created empty
NewBucketEmpty(capacity, t) == [tokens |-> 0, last_refill |-> t]

\* _refill_bucket, absent bucket: created full, stamped with the clock
NewBucket(capacity, t) == [tokens |-> capacity * Unit, last_refill |-> t]

\* a refill that is not clamped to the capacity
RefilledNoClamp(bucket, capacity, refill_rate, t) ==
    LET elapsed == t - bucket.last_refill
        new_tokens == bucket.tokens + elapsed * refill_rate
    IN  [tokens |-> new_tokens, last_refill |-> t]

\* a refill that keeps the old timestamp
RefilledNoStamp(bucket, capacity, refill_rate, t) ==
    LET elapsed == t - bucket.last_refill
        new_tokens == bucket.tokens + elapsed * refill_rate
    IN  [tokens |-> Min(new_tokens, capacity * Unit), last_refill |-> bucket.last_refill]

\* _refill_bucket, existing bucket: refill by elapsed time, clamp, restamp
Refilled(bucket, capacity, refill_rate, t) ==
    LET elapsed == t - bucket.last_refill
        new_tokens == bucket.tokens + elapsed * refill_rate
    IN  [tokens |-> Min(new_tokens, capacity * Unit), last_refill |-> t]

\* _refill_bucket: the bucket mapping after the call, at clock t
RefillBucket(cfg, st, tool, user, t) ==
    LET bucket_key == GetBucketKey(tool, user)
    IN  IF tool \notin DOMAIN cfg THEN st
        ELSE LET capacity == cfg[tool].capacity
                 refill_rate == cfg[tool].refill_rate
             IN  IF bucket_key \notin DOMAIN st
                 THEN Put(st, bucket_key, NewBucket(capacity, t))
                 ELSE [st EXCEPT ![bucket_key] =
                          Refilled(st[bucket_key], capacity, refill_rate, t)]

\* an admission that needs more than one token
HasTokenStrict(bucket) == bucket.tokens > Unit

\* an admission on any fraction of a token
HasTokenFraction(bucket) == bucket.tokens >= 1

\* the admission test of check
HasToken(bucket) == bucket.tokens >= Unit

\* a debit that takes the whole bucket
DebitAll(st, bucket_key) == [st EXCEPT ![bucket_key].tokens = 0]

\* a debit that takes nothing
DebitNone(st, bucket_key) == st

\* the debit of check
Debit(st, bucket_key) == [st EXCEPT ![bucket_key].tokens = @ - Unit]

\* check: what it returns (or raises) on (cfg, st) at clock t
CheckResult(cfg, st, tool, user, t) ==
    IF tool \notin DOMAIN cfg THEN "UnknownTool"
    ELSE IF HasToken(RefillBucket(cfg, st, tool, user, t)[GetBucketKey(tool, user)])
         THEN "Allowed" ELSE "Denied"

\* a check that creates the bucket before it looks the policy up
CheckStateCreatesFirst(cfg, st, tool, user, t) ==
    LET bucket_key == GetBucketKey(tool, user)
    IN  IF tool \notin DOMAIN cfg
        THEN IF bucket_key \in DOMAIN st THEN st
             ELSE Put(st, bucket_key, [tokens |-> 0, last_refill |-> t])
        ELSE LET refilled == RefillBucket(cfg, st, tool, user, t)
             IN  IF HasToken(refilled[bucket_key])
                 THEN Debit(refilled, bucket_key)
                 ELSE refilled

\* check: self.state when it returns (or raises)
CheckState(cfg, st, tool, user, t) ==
    IF tool \notin DOMAIN cfg THEN st
    ELSE LET bucket_key == GetBucketKey(tool, user)
             refilled == RefillBucket(cfg, st, tool, user, t)
         IN  IF HasToken(refilled[bucket_key])
             THEN Debit(refilled, bucket_key)
             ELSE refilled

\* a set_limit that keeps the policy of a tool that already has one
WithLimitKeepExisting(cfg, tool, capacity, refill_rate) ==
    IF tool \in DOMAIN cfg THEN cfg
    ELSE Put(cfg, tool, [capacity |-> capacity, refill_rate |-> refill_rate])

\* a set_limit that replaces the whole policy mapping
WithLimitOnly(cfg, tool, capacity, refill_rate) ==
    Put(EmptyMap, tool, [capacity |-> capacity, refill_rate |-> refill_rate])

\* set_limit: self.config after the assignment
WithLimit(cfg, tool, capacity, refill_rate) ==
    Put(cfg, tool, [capacity |-> capacity, refill_rate |-> refill_rate])

\* a reset that empties the buckets and keeps them
ResetToZero(cfg, st) == [k \in DOMAIN st |-> [st[k] EXCEPT !.tokens = 0]]

\* a reset that fills the buckets and keeps them
ResetToFull(cfg, st) ==
    [k \in DOMAIN st |-> [st[k] EXCEPT !.tokens = cfg[KeyTool(k)].capacity * Unit]]

\* reset: self.state after the assignment
ResetState(cfg, st) == EmptyMap

\* status: every tool of the policies with its capacity and refill rate, and
\* under it the tokens of each bucket whose key splits to that tool
Status(cfg, st) ==
    [tool \in DOMAIN cfg |->
        LET bucket_keys == {k \in DOMAIN st : KeyTool(k) = tool}
        IN  [capacity |-> cfg[tool].capacity,
             refill_rate |-> cfg[tool].refill_rate,
             users |-> [user \in {KeyUser(k) : k \in bucket_keys} |->
                          st[CHOOSE k \in bucket_keys : KeyUser(k) = user].tokens]]]

\* ---- the command line ----
\* a check command that reports an unknown tool as a denial
CmdCheckErrorAsDenied(result) == IF result = "Allowed" THEN 0 ELSE 1

\* cmd_check: 0 when allowed, 1 when denied, 2 when check raised
CmdCheck(result) ==
    IF result = "Allowed" THEN 0
    ELSE IF result = "Denied" THEN 1
    ELSE 2

\* ---- the record of the latest call ----
\* was: the bucket before a check ("present", "absent", or absent since a
\*      reset: "reset", and "drained" if it then held less than one token)
\* after: the call before a check ("init", "set_limit" on the same tool, "other")
\* exit: the exit code of the command that made the call
\* report: what status returned
Call(op, tool, user, result, capacity, refill_rate, was, after) ==
    [op |-> op, tool |-> tool, user |-> user, result |-> result,
     capacity |-> capacity, refill_rate |-> refill_rate,
     was |-> was, after |-> after,
     exit |-> IF op = "check" THEN CmdCheck(result) ELSE 0,
     report |-> EmptyMap]

Init ==
    /\ configFile = NoFile
    /\ stateFile = NoFile
    /\ config = LoadConfig(configFile)
    /\ state = LoadState(stateFile)
    /\ now = 0
    /\ last = Call("init", NoId, NoId, "none", 0, 0, "none", "none")
    /\ hist = [k \in Keys |-> 0]
    /\ stale = {}
    /\ restored = [k \in Keys |-> 0]
    /\ ops = 0
    /\ admitted = 0
    /\ born = -1
    /\ checked = EmptyMap
    /\ peer = NoPeer

\* RateLimiter.__init__: a new engine on the same two files
ConstructCall ==
    /\ config' = LoadConfig(configFile)
    /\ state' = LoadState(stateFile)
    /\ last' = Call("init", NoId, NoId, "none", 0, 0, "none", "none")
    /\ UNCHANGED <<configFile, stateFile, now, hist, stale, restored>>

Construct ==
    /\ ops < MaxOps
    /\ ops' = ops + 1
    /\ ConstructCall
    /\ UNCHANGED watch

\* RateLimiter.set_limit
SetLimit(tool, capacity, refill_rate) ==
    LET changed == tool \notin DOMAIN config
                   \/ config[tool] # [capacity |-> capacity, refill_rate |-> refill_rate]
        lowered == tool \in DOMAIN config /\ capacity < config[tool].capacity
    IN  /\ ops < MaxOps
        /\ ops' = ops + 1
        /\ config' = WithLimit(config, tool, capacity, refill_rate)
        /\ configFile' = DumpConfig(config')
        /\ last' = Call("set_limit", tool, NoId, "none", capacity, refill_rate,
                        "none", "none")
        /\ hist' = [k \in Keys |->
                      IF changed /\ hist[k] > 0 /\ k \in KeysOf(tool)
                      THEN -1 ELSE hist[k]]
        /\ stale' = IF lowered
                    THEN stale \cup (KeysOf(tool)
                                     \cap (DOMAIN state \cup DOMAIN LoadState(stateFile)))
                    ELSE stale
        /\ UNCHANGED <<state, stateFile, now, restored>>
        /\ UNCHANGED watch

\* RateLimiter.check
CheckCall(tool, user) ==
    LET bucket_key == GetBucketKey(tool, user)
        result == CheckResult(config, state, tool, user, now)
        was == IF bucket_key \in DOMAIN state THEN "present"
               ELSE IF bucket_key \notin DOMAIN restored THEN "absent"
               ELSE IF restored[bucket_key] = 2 THEN "drained"
               ELSE IF restored[bucket_key] = 1 THEN "reset"
               ELSE "absent"
        after == IF last.op = "init" THEN "init"
                 ELSE IF last.op = "set_limit" /\ last.tool = tool THEN "set_limit"
                 ELSE "other"
    IN  /\ state' = CheckState(config, state, tool, user, now)
        /\ stateFile' = IF result = "Allowed" THEN DumpState(state') ELSE stateFile
        /\ last' = Call("check", tool, user, result, 0, 0, was, after)
        /\ IF result = "UnknownTool"
           THEN UNCHANGED <<hist, stale, restored>>
           ELSE /\ hist' = [k \in Keys |->
                              IF k # bucket_key THEN hist[k]
                              ELSE IF hist[k] >= 0 /\ config[tool].refill_rate = 0
                                   THEN Min(hist[k] + 1, MaxCalls) ELSE -1]
                /\ stale' = stale \ {bucket_key}
                /\ restored' = [k \in Keys |->
                                  IF k = bucket_key THEN 0 ELSE restored[k]]
        /\ UNCHANGED <<config, configFile, now>>

Check(tool, user) ==
    /\ ops < MaxOps
    /\ ops' = ops + 1
    /\ CheckCall(tool, user)
    /\ UNCHANGED watch

\* RateLimiter.reset
Reset ==
    /\ ops < MaxOps
    /\ ops' = ops + 1
    /\ state' = ResetState(config, state)
    /\ stateFile' = DumpState(state')
    /\ last' = Call("reset", NoId, NoId, "none", 0, 0, "none", "none")
    /\ hist' = [k \in Keys |-> 0]
    /\ stale' = {}
    /\ restored' = [k \in Keys |->
                      IF k \in DOMAIN state /\ ~HasToken(state[k]) THEN 2 ELSE 1]
    /\ UNCHANGED <<config, configFile, now>>
    /\ UNCHANGED watch

\* the wall clock advances between calls
Tick ==
    /\ now < MaxTime
    /\ now' = now + 1
    /\ UNCHANGED <<config, state, configFile, stateFile, last, hist, stale,
                   restored, ops>>
    /\ UNCHANGED watch

Next ==
    \/ Construct
    \/ \E tool \in Tools, capacity \in Capacities, refill_rate \in Rates :
          SetLimit(tool, capacity, refill_rate)
    \/ \E c \in Callers : Check(c[1], c[2])
    \/ Reset
    \/ Tick

Spec == Init /\ [][Next]_vars

\* ---- the engine with its status reports ----
\* RateLimiter.status: a read of the engine's memory
StatusCall ==
    /\ ops < MaxOps
    /\ ops' = ops + 1
    /\ last' = [Call("status", NoId, NoId, "none", 0, 0, "none", "none")
                  EXCEPT !.report = Status(config, state)]
    /\ UNCHANGED <<config, state, configFile, stateFile, now, hist, stale, restored>>
    /\ UNCHANGED watch

NextStatus ==
    \/ Next
    \/ StatusCall

SpecStatus == Init /\ [][NextStatus]_vars

\* ---- identifiers with ':' in the user ----
\* the state after construction on a policy document that gives the tools
\* capacities growing with their names and no refill, and no state document
InitKeys ==
    /\ configFile = [exists |-> TRUE,
                     doc |-> {<<t, IF Len(t) = 1 THEN 1 ELSE MaxCap, 0>> : t \in KeyTools}]
    /\ stateFile = NoFile
    /\ config = LoadConfig(configFile)
    /\ state = LoadState(stateFile)
    /\ now = 0
    /\ last = Call("init", NoId, NoId, "none", 0, 0, "none", "none")
    /\ hist = [k \in Keys |-> 0]
    /\ stale = {}
    /\ restored = [k \in Keys |-> 0]
    /\ ops = 0
    /\ admitted = 0
    /\ born = -1
    /\ checked = EmptyMap
    /\ peer = NoPeer

KeyCheck(tool, user) ==
    LET pair == <<tool, user>>
        before == IF pair \in DOMAIN checked THEN checked[pair] ELSE 0
    IN  /\ ops < MaxOps
        /\ ops' = ops + 1
        /\ CheckCall(tool, user)
        /\ checked' = Put(checked, pair,
                          IF last'.result = "Allowed" THEN before + 1 ELSE before)
        /\ UNCHANGED <<admitted, born, peer>>

NextKeys ==
    \/ \E tool \in KeyTools, user \in KeyUsers : KeyCheck(tool, user)
    \/ StatusCall

SpecKeys == InitKeys /\ [][NextKeys]_vars

\* ---- one pair under one policy, over a longer time ----
WTool == <<"a">>
WUser == <<"x">>
WKey == GetBucketKey(WTool, WUser)

LongPolicies == [capacity : {1, LongCap}, refill_rate : Rates]

\* the state after construction on a policy document that names one tool
\* and no state document, as the tests set it up
InitLong ==
    /\ \E p \in LongPolicies :
          configFile = DumpConfig(Put(EmptyMap, WTool, p))
    /\ stateFile = NoFile
    /\ config = LoadConfig(configFile)
    /\ state = LoadState(stateFile)
    /\ now = 0
    /\ last = Call("init", NoId, NoId, "none", 0, 0, "none", "none")
    /\ hist = [k \in Keys |-> 0]
    /\ stale = {}
    /\ restored = [k \in Keys |-> 0]
    /\ ops = 0
    /\ admitted = 0
    /\ born = -1
    /\ checked = EmptyMap
    /\ peer = NoPeer

\* the history of the watched pair over a check of it
Watched ==
    /\ admitted' = IF last'.result = "Allowed" THEN admitted + 1 ELSE admitted
    /\ born' = IF WKey \in DOMAIN state THEN born ELSE now
    /\ UNCHANGED <<checked, peer>>

LongCheck ==
    /\ ops < MaxOps
    /\ ops' = ops + 1
    /\ CheckCall(WTool, WUser)
    /\ Watched

LongConstruct ==
    /\ ops < MaxOps
    /\ ops' = ops + 1
    /\ ConstructCall
    /\ UNCHANGED watch

Wait ==
    /\ now < MaxWait
    /\ now' = now + 1
    /\ UNCHANGED <<config, state, configFile, stateFile, last, hist, stale,
                   restored, ops>>
    /\ UNCHANGED watch

NextLong ==
    \/ LongCheck
    \/ LongConstruct
    \/ Wait

SpecLong == InitLong /\ [][NextLong]_vars

\* ---- two engines on the same files ----
\* RateLimiter.__init__ of the second engine
PeerConstruct ==
    /\ ops < MaxOps
    /\ ops' = ops + 1
    /\ peer' = [config |-> LoadConfig(configFile), state |-> LoadState(stateFile)]
    /\ last' = Call("init", NoId, NoId, "none", 0, 0, "none", "peer")
    /\ UNCHANGED <<config, state, configFile, stateFile, now, hist, stale, restored>>
    /\ UNCHANGED <<admitted, born, checked>>

\* RateLimiter.check on the second engine: its own memory, the shared document
PeerCheck ==
    LET result == CheckResult(peer.config, peer.state, WTool, WUser, now)
        after == CheckState(peer.config, peer.state, WTool, WUser, now)
    IN  /\ peer # NoPeer
        /\ ops < MaxOps
        /\ ops' = ops + 1
        /\ peer' = [peer EXCEPT !.state = after]
        /\ stateFile' = IF result = "Allowed" THEN DumpState(after) ELSE stateFile
        /\ last' = Call("check", WTool, WUser, result, 0, 0, "none", "peer")
        /\ admitted' = IF result = "Allowed" THEN admitted + 1 ELSE admitted
        /\ UNCHANGED <<config, state, configFile, now, hist, stale, restored>>
        /\ UNCHANGED <<born, checked>>

NextRace ==
    \/ LongCheck
    \/ PeerConstruct
    \/ PeerCheck
    \/ Wait

SpecRace == InitLong /\ [][NextRace]_vars

\* ---- a clock that advances for ever ----
\* the longest time a refill of the watched policies takes to fill a bucket
Horizon == LongCap * Unit

\* the buckets one tick later, timestamps counted from the present clock
\* value; a bucket older than Horizon refills to its capacity whatever its
\* age, so its age stays at Horizon
Aged(st) ==
    [k \in DOMAIN st |->
        [st[k] EXCEPT !.last_refill =
            IF st[k].last_refill - 1 < now - Horizon THEN now - Horizon
            ELSE st[k].last_refill - 1]]

\* time.time() returns one more than before
Elapse ==
    /\ state' = Aged(state)
    /\ stateFile' = IF stateFile.exists THEN DumpState(Aged(LoadState(stateFile)))
                    ELSE stateFile
    /\ UNCHANGED <<config, configFile, now, last, hist, stale, restored, ops>>
    /\ UNCHANGED watch

\* a check on the engine in use
LiveCheck ==
    /\ CheckCall(WTool, WUser)
    /\ UNCHANGED ops
    /\ UNCHANGED watch

\* a new engine for the next check
LiveConstruct ==
    /\ ConstructCall
    /\ UNCHANGED ops
    /\ UNCHANGED watch

NextLive ==
    \/ LiveCheck
    \/ LiveConstruct
    \/ Elapse

\* the clock keeps advancing and check keeps being called
SpecLive ==
    /\ InitLong
    /\ [][NextLive]_vars
    /\ WF_vars(Elapse)
    /\ WF_vars(LiveCheck)

\* ---- a wall clock that can be set back ----
\* time.time() returns less than it did at an earlier call
Regress ==
    /\ now > 0
    /\ now' = now - 1
    /\ UNCHANGED <<config, state, configFile, stateFile, last, hist, stale,
                   restored, ops>>
    /\ UNCHANGED watch

NextClock ==
    \/ LongCheck
    \/ LongConstruct
    \/ Wait
    \/ Regress

SpecClock == InitLong /\ [][NextClock]_vars

\* ---- properties ----
LastKey == GetBucketKey(last.tool, last.user)

\* the step is the call check(tool, user)
CheckStep(tool, user) ==
    /\ ops' = ops + 1
    /\ last'.op = "check"
    /\ last'.tool = tool
    /\ last'.user = user

\* the step is a call of set_limit
SetLimitStep == ops' = ops + 1 /\ last'.op = "set_limit"

\* the step is a call of reset
ResetStep == ops' = ops + 1 /\ last'.op = "reset"

\* the bucket of a key, as a set: empty when the key has no bucket
BucketOf(st, key) == IF key \in DOMAIN st THEN {st[key]} ELSE {}

\* C1: under a policy of refill rate 0 and capacity C that no set_limit
\* changes, and with no reset, the n-th check of a (tool, user) since its
\* bucket was absent is Allowed exactly when n <= C, whichever engine
\* instance on the same files makes the call.
C1_ExactlyCapacityAllowed ==
    (last.op = "check" /\ last.result # "UnknownTool" /\ hist[LastKey] >= 1)
        => (last.result = "Allowed" <=> hist[LastKey] <= config[last.tool].capacity)

\* a check denied on a new engine, after an earlier engine used the capacity up
C1_Witness ==
    /\ last.op = "check"
    /\ last.after = "init"
    /\ last.was = "present"
    /\ last.result = "Denied"
    /\ hist[LastKey] = config[last.tool].capacity + 1

\* C2 as claimed: every bucket, in memory and in the state document, has
\* 0 <= tokens <= the current capacity of its tool.
TokensClamped(st) ==
    \A k \in DOMAIN st :
        /\ 0 <= st[k].tokens
        /\ st[k].tokens <= config[KeyTool(k)].capacity * Unit

C2_ClampedAlways == TokensClamped(state) /\ TokensClamped(LoadState(stateFile))

TokensClampedUnlessLowered(st) ==
    \A k \in DOMAIN st :
        /\ 0 <= st[k].tokens
        /\ k \notin stale => st[k].tokens <= config[KeyTool(k)].capacity * Unit

\* C2, amended: every bucket, in memory and in the state document, has
\* 0 <= tokens, and tokens <= the current capacity of its tool unless
\* set_limit has lowered that capacity since the bucket was last checked.
C2_ClampedUnlessLowered ==
    TokensClampedUnlessLowered(state) /\ TokensClampedUnlessLowered(LoadState(stateFile))

\* a bucket refilled up to the capacity by a check, after time has passed
C2_Witness ==
    /\ last.op = "check"
    /\ last.was = "present"
    /\ last.result = "Allowed"
    /\ state[LastKey].last_refill > 0
    /\ state[LastKey].tokens = config[last.tool].capacity * Unit - Unit
    /\ config[last.tool].refill_rate > 0

\* C3: check of a tool without a policy raises the unknown-tool error and
\* changes neither the buckets, nor the policies, nor the two documents.
C3_UnknownToolChangesNothing ==
    [][\A c \in Callers :
          (CheckStep(c[1], c[2]) /\ c[1] \notin DOMAIN config)
              => /\ last'.result = "UnknownTool"
                 /\ c[1] \notin DOMAIN config'
                 /\ UNCHANGED <<config, state, configFile, stateFile>>]_vars

\* an unknown-tool error while another tool has buckets
C3_Witness ==
    /\ last.op = "check"
    /\ last.result = "UnknownTool"
    /\ LastKey \notin DOMAIN state
    /\ state # EmptyMap

\* C4: check(tool, user) leaves the bucket of every other pair that shares
\* its tool or its user as it was, and with it the outcome a check of that
\* other pair would have.
C4_BucketsIndependent ==
    [][\A c \in Callers : \A d \in Callers \ {c} :
          (CheckStep(c[1], c[2]) /\ (d[1] = c[1] \/ d[2] = c[2]))
              => /\ BucketOf(state', GetBucketKey(d[1], d[2]))
                      = BucketOf(state, GetBucketKey(d[1], d[2]))
                 /\ CheckResult(config', state', d[1], d[2], now')
                      = CheckResult(config, state, d[1], d[2], now)]_vars

\* one pair is exhausted and denied while the pairs that share its tool or
\* its user hold tokens
C4_Witness ==
    /\ last.op = "check"
    /\ last.result = "Denied"
    /\ \A d \in Callers :
          (<<d[1], d[2]>> # <<last.tool, last.user>>
           /\ (d[1] = last.tool \/ d[2] = last.user))
              => /\ GetBucketKey(d[1], d[2]) \in DOMAIN state
                 /\ CheckResult(config, state, d[1], d[2], now) = "Allowed"

\* C5: right after an Allowed check and right after reset, what a new
\* engine would load from the two files is the engine's own policy and
\* bucket mappings, so the two give the same outcome for every check at
\* every later clock value.
C5_DocumentsMatchMemory ==
    ((last.op = "check" /\ last.result = "Allowed") \/ last.op = "reset")
        => /\ LoadState(stateFile) = state
           /\ LoadConfig(configFile) = config
           /\ \A c \in Callers, t \in now..MaxTime :
                 CheckResult(LoadConfig(configFile), LoadState(stateFile), c[1], c[2], t)
                     = CheckResult(config, state, c[1], c[2], t)

\* an Allowed check that leaves a fraction of a token, saved with another bucket
C5_Witness ==
    /\ last.op = "check"
    /\ last.result = "Allowed"
    /\ state[LastKey].tokens % Unit # 0
    /\ Cardinality(DOMAIN state) >= 2

\* C6: the check that follows set_limit(tool, c, r) decides with c and r:
\* an existing bucket is refilled to min(c, tokens + elapsed * r), an
\* absent one starts at c, and one token is taken when that is >= 1.
C6_SetLimitUsedByNextCheck ==
    [][\A c \in Callers :
          (last.op = "set_limit" /\ last.tool = c[1] /\ CheckStep(c[1], c[2]))
              => LET key == GetBucketKey(c[1], c[2])
                     cap == last.capacity * Unit
                     T == IF key \in DOMAIN state
                          THEN Min(cap, state[key].tokens
                                        + (now - state[key].last_refill) * last.refill_rate)
                          ELSE cap
                 IN  /\ last'.result = (IF T >= Unit THEN "Allowed" ELSE "Denied")
                     /\ state'[key].tokens = (IF T >= Unit THEN T - Unit ELSE T)
                     /\ state'[key].last_refill = now]_vars

\* a check of an existing bucket right after set_limit lowered the capacity
\* below what the bucket had grown to
C6_Witness ==
    /\ last.op = "check"
    /\ last.after = "set_limit"
    /\ last.was = "present"
    /\ last.result = "Allowed"
    /\ state[LastKey].tokens = 0
    /\ LoadState(stateFile)[LastKey].last_refill = now
    /\ now > 0
    /\ config[last.tool].capacity = 1
    /\ hist[LastKey] = -1

\* C7: set_limit(tool, c, r) makes the policy of tool (c, r) in memory and
\* in the policy document, and changes no other policy, no bucket and not
\* the state document.
C7_SetLimitChangesOnePolicy ==
    [][SetLimitStep
          => LET tool == last'.tool
             IN  /\ DOMAIN config' = DOMAIN config \cup {tool}
                 /\ config'[tool] = [capacity |-> last'.capacity,
                                     refill_rate |-> last'.refill_rate]
                 /\ \A t \in DOMAIN config \ {tool} : config'[t] = config[t]
                 /\ LoadConfig(configFile') = config'
                 /\ state' = state
                 /\ stateFile' = stateFile]_vars

\* set_limit has lowered the capacity of a tool below the tokens one of its
\* buckets holds, while the other tool has a policy too
C7_Witness ==
    /\ last.op = "set_limit"
    /\ DOMAIN config = Tools
    /\ \E k \in DOMAIN state :
          /\ KeyTool(k) = last.tool
          /\ state[k].tokens > last.capacity * Unit

\* C8: the first check of a (tool, user) after reset is Allowed when the
\* tool has a policy, whatever happened to the bucket before the reset.
C8_AllowedAfterReset ==
    [][\A c \in Callers :
          (CheckStep(c[1], c[2]) /\ c[1] \in DOMAIN config
           /\ restored[GetBucketKey(c[1], c[2])] > 0)
              => last'.result = "Allowed"]_vars

\* the first check after a reset of a pair whose bucket held no token at the reset
C8_Witness ==
    /\ last.op = "check"
    /\ last.was = "drained"
    /\ last.result = "Allowed"

\* C9: reset leaves no bucket in memory and none in the state document,
\* and leaves the policies in memory and the policy document as they were.
C9_ResetRemovesAllBuckets ==
    [][ResetStep
          => /\ state' = EmptyMap
             /\ stateFile'.exists
             /\ LoadState(stateFile') = EmptyMap
             /\ config' = config
             /\ configFile' = configFile]_vars

\* a reset that removed a bucket, with policies in place
C9_Witness ==
    /\ last.op = "reset"
    /\ config # EmptyMap
    /\ \E k \in Keys : restored[k] = 2
    /\ \E k \in Keys : restored[k] = 1

\* C10: the check of a pair without a bucket, for a tool with a policy, is
\* Allowed at every refill rate and leaves the bucket with capacity - 1
\* tokens and last_refill at the clock of the call.
C10_FirstCheckAllowed ==
    [][\A c \in Callers :
          (CheckStep(c[1], c[2]) /\ c[1] \in DOMAIN config
           /\ GetBucketKey(c[1], c[2]) \notin DOMAIN state)
              => /\ last'.result = "Allowed"
                 /\ state'[GetBucketKey(c[1], c[2])]
                      = [tokens |-> config[c[1]].capacity * Unit - Unit,
                         last_refill |-> now]]_vars

\* a first check under refill rate 0, made after the clock has advanced
C10_Witness ==
    /\ last.op = "check"
    /\ last.was = "absent"
    /\ last.result = "Allowed"
    /\ config[last.tool].refill_rate = 0
    /\ state[LastKey] = [tokens |-> config[last.tool].capacity * Unit - Unit,
                         last_refill |-> now]
    /\ now > 0

\* C11: a check of an existing bucket (tokens T, last_refill L) under policy
\* (C, r) at clock now >= L is Allowed exactly when
\* T' = min(C, T + (now - L) * r) >= 1, and then the bucket is (T' - 1, now)
\* in memory and in the state document.  With capacity 5 and rate 1, three
\* immediate checks leave 2 tokens, and a check 3 seconds later leaves 4.
C11_RefillThenDebit ==
    [][/\ (CheckStep(WTool, WUser) /\ WKey \in DOMAIN state)
           => LET C == config[WTool].capacity * Unit
                  r == config[WTool].refill_rate
                  T == state[WKey].tokens
                  L == state[WKey].last_refill
                  T1 == Min(C, T + (now - L) * r)
              IN  /\ now >= L
                  /\ last'.result = "Allowed" <=> T1 >= Unit
                  /\ T1 >= Unit
                       => /\ state'[WKey] = [tokens |-> T1 - Unit, last_refill |-> now]
                          /\ LoadState(stateFile')[WKey] = state'[WKey]
       /\ (/\ config[WTool] = [capacity |-> LongCap, refill_rate |-> Unit]
           /\ CheckStep(WTool, WUser)
           /\ now = 0
           /\ admitted' = 3)
           => state'[WKey].tokens = 2 * Unit
       /\ (/\ config[WTool] = [capacity |-> LongCap, refill_rate |-> Unit]
           /\ CheckStep(WTool, WUser)
           /\ WKey \in DOMAIN state
           /\ state[WKey] = [tokens |-> 2 * Unit, last_refill |-> 0]
           /\ now = 3)
           => /\ last'.result = "Allowed"
              /\ state'[WKey].tokens = 4 * Unit]_vars

\* capacity 5, rate 1: the fourth check, 3 seconds after three immediate
\* ones, has left 4 tokens
C11_Witness ==
    /\ config[WTool] = [capacity |-> LongCap, refill_rate |-> Unit]
    /\ last.op = "check"
    /\ last.result = "Allowed"
    /\ admitted = 4
    /\ ops = 4
    /\ born = 0
    /\ now = 3
    /\ state[WKey] = [tokens |-> 4 * Unit, last_refill |-> 3]
    /\ LoadState(stateFile)[WKey] = state[WKey]

\* the step is a call of check that returned Denied
DeniedStep == ops' = ops + 1 /\ last'.op = "check" /\ last'.result = "Denied"

\* C12 as claimed: the token count status reports for each (tool, user) is
\* the tokens value the state document stores for that key at that moment.
C12_StatusReportsDocument ==
    last.op = "status" =>
        \A tool \in DOMAIN last.report :
            \A user \in DOMAIN last.report[tool].users :
                LET bucket_key == GetBucketKey(tool, user)
                    doc == LoadState(stateFile)
                IN  /\ bucket_key \in DOMAIN doc
                    /\ doc[bucket_key].tokens = last.report[tool].users[user]

\* C14: the exit code of the check command is 0 exactly when check returned
\* Allowed, 1 exactly when it returned Denied, and 2 exactly when the tool
\* has no policy.
C14_ExitCodeSeparatesOutcomes ==
    last.op = "check" =>
        /\ last.exit = 0 <=> last.result = "Allowed"
        /\ last.exit = 1 <=> last.result = "Denied"
        /\ last.exit = 2 <=> last.tool \notin DOMAIN config

\* a check of a tool without a policy, on an engine that has policies and
\* buckets of another tool, exits with 2
C14_Witness ==
    /\ last.op = "check"
    /\ last.exit = 2
    /\ last.tool \notin DOMAIN config
    /\ DOMAIN config # {}
    /\ DOMAIN state # {}

\* C15 as claimed: a check that returns Denied leaves the buckets in memory
\* and the state document as they were before the call.
C15_DeniedChangesNothing ==
    [][DeniedStep => (state' = state /\ stateFile' = stateFile)]_vars

\* C13: status lists every tool that has a policy with its capacity and
\* refill rate, and for tools without ':' and users with or without ':' the
\* bucket that check(tool, user) created is reported exactly at
\* result[tool]["users"][user] with its token count: the key composed as
\* tool + ":" + user splits at its first ':' into (tool, user), and distinct
\* pairs share neither a bucket nor a status entry.
C13_StatusAttributesBuckets ==
    last.op = "status" =>
        /\ DOMAIN last.report = DOMAIN config
        /\ \A tool \in DOMAIN config :
              /\ last.report[tool].capacity = config[tool].capacity
              /\ last.report[tool].refill_rate = config[tool].refill_rate
              /\ \A user \in DOMAIN last.report[tool].users :
                    <<tool, user>> \in DOMAIN checked
        /\ \A pair \in DOMAIN checked :
              LET bucket_key == GetBucketKey(pair[1], pair[2])
              IN  /\ KeyTool(bucket_key) = pair[1]
                  /\ KeyUser(bucket_key) = pair[2]
                  /\ pair[2] \in DOMAIN last.report[pair[1]].users
                  /\ last.report[pair[1]].users[pair[2]]
                        = (config[pair[1]].capacity - checked[pair]) * Unit
        /\ Cardinality(DOMAIN state) = Cardinality(DOMAIN checked)

\* a status report over buckets of both tools, one of a user with ':' in it,
\* one of the empty user, holding different token counts
C13_Witness ==
    /\ last.op = "status"
    /\ \E p \in DOMAIN checked, q \in DOMAIN checked :
          /\ p[1] # q[1]
          /\ \E i \in 1..Len(p[2]) : p[2][i] = ":"
          /\ q[2] = <<>>
          /\ last.report[p[1]].users[p[2]] # last.report[q[1]].users[q[2]]

\* C16: on one pair under an unchanged policy of capacity C and refill rate
\* r, with no reset, the number of Allowed checks since the bucket was
\* created at t0 is at most C + r * (now - t0); with no time elapsed it is at
\* most C.
C16_AdmissionRateBound ==
    born >= 0 =>
        /\ admitted * Unit
              <= config[WTool].capacity * Unit + config[WTool].refill_rate * (now - born)
        /\ now = born => admitted <= config[WTool].capacity

\* a check denied after the bound was used up to the last token, time having
\* passed under a positive refill rate
C16_Witness ==
    /\ born >= 0
    /\ now > born
    /\ config[WTool].refill_rate > 0
    /\ last.op = "check"
    /\ last.result = "Denied"
    /\ admitted * Unit
          = config[WTool].capacity * Unit + config[WTool].refill_rate * (now - born)

\* C18 as claimed: a check of an existing bucket at a clock value below its
\* last_refill refills as if no time had elapsed, tokens = min(capacity,
\* tokens) before the debit, and leaves no negative token count.
C18_RegressionAddsNoNegativeRefill ==
    [][(CheckStep(WTool, WUser) /\ WKey \in DOMAIN state
            /\ now < state[WKey].last_refill)
        => LET refilled == Min(config[WTool].capacity * Unit, state[WKey].tokens)
           IN  /\ state'[WKey].tokens
                     = IF refilled >= Unit THEN refilled - Unit ELSE refilled
               /\ state'[WKey].tokens >= 0]_vars

\* the tokens an engine holds for the watched pair, a full bucket if it has none
HeldBy(cfg, st) ==
    IF WKey \in DOMAIN st THEN st[WKey].tokens ELSE cfg[WTool].capacity * Unit

\* C17: two engines built on the same state document lose updates, the last
\* writer winning: under refill rate 0 an Allowed check leaves in the document
\* the acting engine's own token count less one, whatever the document held,
\* one engine alone admits no more than capacity checks, and the two together
\* admit more.
C17_LastWriterWins ==
    [][(config[WTool].refill_rate = 0 /\ CheckStep(WTool, WUser))
        => /\ (last'.result = "Allowed" /\ last'.after = "peer")
                => LoadState(stateFile')[WKey].tokens
                      = HeldBy(peer.config, peer.state) - Unit
           /\ (last'.result = "Allowed" /\ last'.after # "peer")
                => LoadState(stateFile')[WKey].tokens
                      = HeldBy(config, state) - Unit
           /\ admitted' > config[WTool].capacity => peer' # NoPeer]_vars

\* under refill rate 0 the two engines have admitted more checks than the
\* capacity, the last save putting back a token the document had lost
C17_Witness ==
    /\ config[WTool].refill_rate = 0
    /\ admitted > config[WTool].capacity
    /\ peer # NoPeer
    /\ last.op = "check"
    /\ last.result = "Allowed"
    /\ LoadState(stateFile)[WKey].tokens
          > (config[WTool].capacity - admitted) * Unit

\* C19: under a policy of capacity >= 1 and refill rate > 0, with the clock
\* advancing and check being called again and again, every Denied is
\* followed by an Allowed, on one engine and on engines built anew from the
\* files.
C19_EventualAdmission ==
    (last.op = "check" /\ last.result = "Denied" /\ config[WTool].refill_rate > 0)
        ~> (last.op = "check" /\ last.result = "Allowed")

\* a check denied on a new engine under a positive refill rate, the saved
\* bucket refilled by less than a token
C19_Witness ==
    /\ last.op = "check"
    /\ last.result = "Denied"
    /\ last.after = "init"
    /\ config[WTool].refill_rate > 0
    /\ state[WKey].tokens > LoadState(stateFile)[WKey].tokens


====
